---- MODULE Spec2Model ----
(***************************************************************************)
(* Safe.Env: encrypt / decrypt / rotate of the protected file ".env" with  *)
(* a key record kept under ~/.env_keys/<project>/env_key.json and a        *)
(* binding record kept in ".env.encrypt".                                  *)
(*                                                                         *)
(* The repository holds two scripts with the same three commands:          *)
(* encrypt_env.js and a second copy (part_000).  Every invocation of the   *)
(* tool runs one of the two; the input `ver` says which.                   *)
(*                                                                         *)
(* A text is a sequence of items.  An item is an ordinary character        *)
(* (Chr), among them the delimiter ":", or the hex encoding of a byte      *)
(* string (Hex).  A byte string is empty, the garbage a cipher returns, an *)
(* iv, or a ciphertext; a ciphertext remembers the secret, the iv and the  *)
(* text it was made from, which is all aes-256-cbc lets a holder of the    *)
(* secret recover.                                                         *)
(*                                                                         *)
(* crypto.randomBytes is modelled as a source of fresh values: the n-th    *)
(* draw of a run returns n.  Secrets, tokens and ivs are drawn from it.    *)
(***************************************************************************)
EXTENDS Naturals, Sequences, FiniteSets, TLC

VARIABLES keyFile, envFile, metaFile, rng, last, prev, prev2, stored, written, origin,
          procs, sched

vars == <<keyFile, envFile, metaFile, rng, last, prev, prev2, stored, written, origin,
          procs, sched>>

---------------------------------------------------------------------------
(* Bounds *)

\* number of crypto.randomBytes draws in one behaviour
MaxDraws == 6

---------------------------------------------------------------------------
(* Inputs *)

Versions == {"encrypt_env", "part_000"}
\* what `git config user.name` / `git config user.email` give; NoUser: not set
NoUser == "nobody"
GitUsers == {"alice <a@x>", "bob <b@x>"}
\* new Date().toISOString(); only validateKey's message ever reads it back
Times == {"2024-05-01T10:00:00.000Z"}

---------------------------------------------------------------------------
(* Texts and byte strings *)

NoBytes == [t |-> "empty", n |-> 0, key |-> 0, data |-> <<>>]
IvBytes(n) == [t |-> "iv", n |-> n, key |-> 0, data |-> <<>>]
CtBytes(key, iv, data) == [t |-> "ct", n |-> iv, key |-> key, data |-> data]

Chr(c) == [t |-> "chr", c |-> c, b |-> NoBytes]
Hex(b) == [t |-> "hex", c |-> "", b |-> b]
Colon == Chr(":")

\* the contents .env may have before the tool first touches it
Plaintexts == { <<Chr("secret=1")>>, <<Chr("URL=http"), Colon, Chr("//h")>> }

\* what decoding undecodable bytes as utf8 leaves in the file
GarbageText == <<Chr("garbage")>>

---------------------------------------------------------------------------
(* String and Buffer operations of the runtime *)

IsColon(x) == x.t = "chr" /\ x.c = ":"

\* position of the first ":" of s, 0 when there is none
FirstColon(s) ==
  IF \E i \in 1..Len(s) : IsColon(s[i])
  THEN CHOOSE i \in 1..Len(s) : IsColon(s[i]) /\ \A j \in 1..(i - 1) : ~IsColon(s[j])
  ELSE 0

\* String.prototype.split(":"): the pieces between the delimiters
RECURSIVE split(_)
split(s) ==
  IF FirstColon(s) = 0 THEN <<s>>
  ELSE <<SubSeq(s, 1, FirstColon(s) - 1)>> \o split(SubSeq(s, FirstColon(s) + 1, Len(s)))

\* Array.prototype.join(":")
RECURSIVE join(_)
join(parts) ==
  IF Len(parts) = 0 THEN <<>>
  ELSE IF Len(parts) = 1 THEN parts[1]
  ELSE parts[1] \o <<Colon>> \o join(Tail(parts))

\* Buffer.from(str, "hex"): decodes the leading hex digits and stops at the
\* first character that is none
FromHex(str) == IF Len(str) >= 1 /\ str[1].t = "hex" THEN str[1].b ELSE NoBytes

\* Buffer.toString("hex")
ToHex(b) == <<Hex(b)>>

---------------------------------------------------------------------------
(* Files *)

KeyPath == "~/.env_keys/project/env_key.json"

NoKeyData == [key |-> 0, validation_token |-> 0]
NoMetadata ==
  [fields |-> {}, last_encrypted_by |-> "", key_path |-> "", key_status |-> "",
   validation_token |-> 0, timestamp |-> ""]

\* dir: whether the key's directory exists
NoKeyFile == [dir |-> FALSE, exists |-> FALSE, mode |-> "none", data |-> NoKeyData]
NoEnvFile == [exists |-> FALSE, mode |-> "none", data |-> <<>>]
NoMetaFile == [exists |-> FALSE, mode |-> "none", data |-> NoMetadata]

\* the mode option of fs.writeFileSync: encrypt_env.js passes 0o600, the
\* second script passes none
WriteMode(ver) == IF ver = "encrypt_env" THEN "0600" ELSE "default"

\* fs.writeFileSync(path, data, {mode}): the mode is applied only when the
\* call creates the file; an existing file keeps the mode it has
writeFileSync(file, data, mode) ==
  [file EXCEPT !.exists = TRUE,
               !.data = data,
               !.mode = IF file.exists THEN file.mode ELSE mode]

---------------------------------------------------------------------------
(* One invocation: the files as the run sees them, what it did so far      *)
(* (log), the exception in flight (err), the draws made (rng) and the      *)
(* value of the local keyData.                                             *)

Start ==
  [key |-> keyFile, env |-> envFile, meta |-> metaFile, log |-> <<>>,
   err |-> "none", rng |-> rng, keyData |-> NoKeyData]

\* a file-system or cipher operation the run performs; k: the secret involved
Log(r, a, k) == [r EXCEPT !.log = Append(@, [a |-> a, k |-> k])]

Throw(r, e) == [r EXCEPT !.err = e]

---------------------------------------------------------------------------
(* The cipher (node's crypto module) *)

\* crypto.randomBytes: the value the next draw returns, and the run after it
randomBytes(r) == r.rng + 1
Drawn(r) == [r EXCEPT !.rng = @ + 1]

\* the cipher without cipher.final(): a text shorter than one block yields
\* no ciphertext at all
cipher_noFinal(data, key, iv) == NoBytes

\* createCipheriv("aes-256-cbc", key, iv), update, final
cipher(data, key, iv) == CtBytes(key, iv, data)

\* createDecipheriv("aes-256-cbc", key, iv), update, final.  Under the secret
\* and iv the bytes were made with, the text comes back.  No input at all is
\* rejected (wrong final block length).  Anything else is rejected by the
\* padding check, or, when the last block happens to end in valid padding,
\* comes out as garbage: garble says which.
decipher(bytes, key, iv, garble) ==
  IF bytes.t = "ct" /\ bytes.key = key /\ bytes.n = iv
  THEN [ok |-> TRUE, text |-> bytes.data]
  ELSE IF bytes.t = "empty" \/ ~garble
  THEN [ok |-> FALSE, text |-> <<>>]
  ELSE [ok |-> TRUE, text |-> GarbageText]

---------------------------------------------------------------------------
(* The functions of the scripts.  Each takes the run r and returns the run *)
(* after the call; a call reached with an exception in flight does nothing. *)

loadKey(r) ==
  IF r.err # "none" THEN r
  ELSE IF ~r.key.exists
  THEN Throw(Log(r, "existsSync(key)", 0), "KeyNotFound")
  ELSE [Log(Log(r, "existsSync(key)", 0), "readFileSync(key)", r.key.data.key)
          EXCEPT !.keyData = r.key.data]

saveKey(r, keyData, ver) ==
  IF r.err # "none" THEN r
  ELSE [Log(r, "writeFileSync(key)", keyData.key)
          EXCEPT !.key = [writeFileSync(r.key, keyData, WriteMode(ver)) EXCEPT !.dir = TRUE]]

generateValidationToken(r) == randomBytes(r)

\* encryptFile with a constant iv instead of a draw
encryptFile_staticIv(r, key, ver) ==
  IF r.err # "none" THEN r
  ELSE IF ~r.env.exists
  THEN Throw(Log(r, "existsSync(env)", 0), "FileNotFound")
  ELSE LET result == ToHex(IvBytes(0)) \o <<Colon>> \o ToHex(cipher(r.env.data, key, 0))
           r1 == Log(Log(r, "existsSync(env)", 0), "readFileSync(env)", 0)
           r2 == Log(r1, "createCipheriv", key)
       IN [Log(r2, "writeFileSync(env)", key)
             EXCEPT !.env = writeFileSync(r.env, result, WriteMode(ver))]

encryptFile(r, key, ver) ==
  IF r.err # "none" THEN r
  ELSE IF ~r.env.exists
  THEN Throw(Log(r, "existsSync(env)", 0), "FileNotFound")
  ELSE LET data == r.env.data
           iv == randomBytes(r)
           encrypted == ToHex(cipher(data, key, iv))
           result == ToHex(IvBytes(iv)) \o <<Colon>> \o encrypted
           r1 == Log(Log(Drawn(r), "existsSync(env)", 0), "readFileSync(env)", 0)
           r2 == Log(r1, "createCipheriv", key)
       IN [Log(r2, "writeFileSync(env)", key)
             EXCEPT !.env = writeFileSync(r.env, result, WriteMode(ver))]

\* decryptFile writing what decipher.update returned before decipher.final
\* has checked the padding: a rejected ciphertext still overwrites the file
decryptFile_writeBeforeFinal(r, key, ver, garble) ==
  IF r.err # "none" THEN r
  ELSE IF ~r.env.exists
  THEN Throw(Log(r, "existsSync(env)", 0), "FileNotFound")
  ELSE LET parts == split(r.env.data)
           undefinedText == ver = "encrypt_env" /\ Len(parts) < 2
           encryptedText == IF undefinedText THEN <<>>
                            ELSE IF ver = "encrypt_env" THEN parts[2]
                            ELSE join(Tail(parts))
           iv == FromHex(parts[1])
           r1 == Log(Log(r, "existsSync(env)", 0), "readFileSync(env)", 0)
           r2 == Log(r1, "createDecipheriv", key)
           out == decipher(FromHex(encryptedText), key, iv.n, garble)
           wrote == [Log(r2, "writeFileSync(env)", key)
                       EXCEPT !.env = writeFileSync(r.env,
                                        IF out.ok THEN out.text ELSE GarbageText,
                                        WriteMode(ver))]
       IN IF iv.t # "iv" THEN Throw(r2, "DecryptionFailed")
          ELSE IF undefinedText THEN Throw(r2, "DecryptionFailed")
          ELSE IF ~out.ok THEN Throw(wrote, "DecryptionFailed")
          ELSE wrote

\* encrypt_env.js destructures the first two pieces of data.split(":") (the
\* second is undefined when there is no delimiter); the second script takes
\* the first piece and joins the rest again
decryptFile(r, key, ver, garble) ==
  IF r.err # "none" THEN r
  ELSE IF ~r.env.exists
  THEN Throw(Log(r, "existsSync(env)", 0), "FileNotFound")
  ELSE LET data == r.env.data
           parts == split(data)
           ivHex == parts[1]
           undefinedText == ver = "encrypt_env" /\ Len(parts) < 2
           encryptedText == IF undefinedText THEN <<>>
                            ELSE IF ver = "encrypt_env" THEN parts[2]
                            ELSE join(Tail(parts))
           iv == FromHex(ivHex)
           r1 == Log(Log(r, "existsSync(env)", 0), "readFileSync(env)", 0)
           r2 == Log(r1, "createDecipheriv", key)
           out == decipher(FromHex(encryptedText), key, iv.n, garble)
       IN IF iv.t # "iv" THEN Throw(r2, "DecryptionFailed")
          ELSE IF undefinedText THEN Throw(r2, "DecryptionFailed")
          ELSE IF ~out.ok THEN Throw(r2, "DecryptionFailed")
          ELSE [Log(r2, "writeFileSync(env)", key)
                  EXCEPT !.env = writeFileSync(r.env, out.text, WriteMode(ver))]

\* user: what git config reports for this invocation
getGitUser(r, user) ==
  IF r.err # "none" THEN r
  ELSE IF user = NoUser THEN Throw(Log(r, "git config", 0), "IdentityUnavailable")
  ELSE Log(r, "git config", 0)

\* validateKey without its comparison: every key passes
validateKey_noCheck(r, keyData, metadata) ==
  IF r.err # "none" THEN r ELSE Log(r, "validateKey", 0)

validateKey(r, keyData, metadata) ==
  IF r.err # "none" THEN r
  ELSE IF keyData.validation_token # metadata.validation_token
  THEN Throw(Log(r, "validateKey", 0), "BindingMismatch")
  ELSE Log(r, "validateKey", 0)

\* the object updateMetadata builds; encrypt_env.js adds the timestamp
Metadata(ver, user, rotated, token, now) ==
  [fields |-> {"last_encrypted_by", "key_path", "key_status", "validation_token"}
                \cup (IF ver = "encrypt_env" THEN {"timestamp"} ELSE {}),
   last_encrypted_by |-> user,
   key_path |-> KeyPath,
   key_status |-> IF rotated THEN "rotated" ELSE "stable",
   validation_token |-> token,
   timestamp |-> IF ver = "encrypt_env" THEN now ELSE ""]

\* the binding record merged into the one on disk instead of replacing it:
\* a field the new object lacks survives from the old record
writeMetadata_merge(r, metadata, ver) ==
  [Log(r, "writeFileSync(meta)", 0)
     EXCEPT !.meta = writeFileSync(r.meta,
                       [metadata EXCEPT
                          !.fields = @ \cup r.meta.data.fields,
                          !.timestamp = IF "timestamp" \in metadata.fields
                                        THEN @ ELSE r.meta.data.timestamp],
                       WriteMode(ver))]

\* fs.writeFileSync(".env.encrypt", JSON.stringify(metadata)): the whole file
\* is replaced by the new object
writeMetadata(r, metadata, ver) ==
  [Log(r, "writeFileSync(meta)", 0)
     EXCEPT !.meta = writeFileSync(r.meta, metadata, WriteMode(ver))]

\* encrypt_env.js loads the key (loadKey) and then asks git; the second
\* script asks git and then reads the key file without an existence check
updateMetadata(r, rotated, ver, user, now) ==
  IF r.err # "none" THEN r
  ELSE IF ver = "encrypt_env"
  THEN LET r1 == loadKey(r)
           r2 == getGitUser(r1, user)
       IN IF r2.err # "none" THEN r2
          ELSE writeMetadata(r2, Metadata(ver, user, rotated, r1.keyData.validation_token, now), ver)
  ELSE LET r1 == getGitUser(r, user)
       IN IF r1.err # "none" THEN r1
          ELSE IF ~r1.key.exists THEN Throw(Log(r1, "readFileSync(key)", 0), "ENOENT")
          ELSE writeMetadata(Log(r1, "readFileSync(key)", r1.key.data.key),
                             Metadata(ver, user, rotated, r1.key.data.validation_token, now), ver)

---------------------------------------------------------------------------
(* main: the three commands *)

\* encrypt, no key on disk: the token is drawn first, then the secret
encryptKeyData(r) ==
  [key |-> randomBytes(Drawn(r)), validation_token |-> generateValidationToken(r)]

\* rotate drawing a new token and keeping the stored secret
rotateKeyData_keepSecret(r) ==
  [key |-> r.key.data.key, validation_token |-> generateValidationToken(Drawn(r))]

\* rotate drawing a new secret and keeping the stored token
rotateKeyData_keepToken(r) ==
  [key |-> randomBytes(r), validation_token |-> r.key.data.validation_token]

\* rotate: the secret is drawn first, then the token
rotateKeyData(r) ==
  [key |-> randomBytes(r), validation_token |-> generateValidationToken(Drawn(r))]

\* encrypt generating a key record whether or not one is on disk
mainEncrypt_alwaysNewKey(r, ver, user, now) ==
  LET r1 == Log(r, "existsSync(key)", 0)
      r2 == [saveKey(Drawn(Drawn(r1)), encryptKeyData(r1), ver)
               EXCEPT !.keyData = encryptKeyData(r1)]
      r3 == encryptFile(r2, r2.keyData.key, ver)
  IN updateMetadata(r3, FALSE, ver, user, now)

mainEncrypt(r, ver, user, now) ==
  LET r1 == Log(r, "existsSync(key)", 0)
      created == [saveKey(Drawn(Drawn(r1)), encryptKeyData(r1), ver)
                    EXCEPT !.keyData = encryptKeyData(r1)]
      r2 == IF ~r.key.exists THEN created ELSE loadKey(r1)
      r3 == encryptFile(r2, r2.keyData.key, ver)
  IN updateMetadata(r3, FALSE, ver, user, now)

\* decrypt deleting the binding record once the file is decrypted
mainDecrypt_dropsBinding(r, ver, garble) ==
  LET r1 == loadKey(r)
      r2 == IF r1.err # "none" THEN r1
            ELSE IF ~r1.meta.exists THEN Throw(Log(r1, "readFileSync(meta)", 0), "ENOENT")
            ELSE Log(r1, "readFileSync(meta)", 0)
      r3 == validateKey(r2, r2.keyData, r2.meta.data)
      r4 == decryptFile(r3, r3.keyData.key, ver, garble)
  IN IF r4.err # "none" THEN r4 ELSE [r4 EXCEPT !.meta = NoMetaFile]

mainDecrypt(r, ver, garble) ==
  LET r1 == loadKey(r)
      r2 == IF r1.err # "none" THEN r1
            ELSE IF ~r1.meta.exists THEN Throw(Log(r1, "readFileSync(meta)", 0), "ENOENT")
            ELSE Log(r1, "readFileSync(meta)", 0)
      r3 == validateKey(r2, r2.keyData, r2.meta.data)
  IN decryptFile(r3, r3.keyData.key, ver, garble)

\* rotate re-encrypting first and persisting the new key record afterwards
mainRotate_saveAfter(r, ver, user, now) ==
  LET keyData == rotateKeyData(r)
      r1 == encryptFile(Drawn(Drawn(r)), keyData.key, ver)
      r2 == saveKey(r1, keyData, ver)
  IN updateMetadata(r2, TRUE, ver, user, now)

mainRotate(r, ver, user, now) ==
  LET keyData == rotateKeyData(r)
      r1 == saveKey(Drawn(Drawn(r)), keyData, ver)
      r2 == encryptFile(r1, keyData.key, ver)
  IN updateMetadata(r2, TRUE, ver, user, now)

---------------------------------------------------------------------------
(* The state machine: one action per command.  last is the most recent     *)
(* invocation: its inputs, the files as they were before it (pre) and what *)
(* it did.  prev and prev2 keep, for the invocation before that one and    *)
(* the one before it, the command, its outcome and the protected file it   *)
(* started from.  stored keeps every key record the key file has held.     *)
(* written keeps, in order, every envelope encryptFile has written and the *)
(* secret it was made under.  origin keeps the protected file as it was    *)
(* before the first invocation, and whether every invocation so far has    *)
(* succeeded.  procs and sched belong to the concurrent runs further down  *)
(* and rest here.                                                          *)

NoInvocation ==
  [op |-> "none", ver |-> "none", user |-> NoUser, now |-> "", err |-> "none", log |-> <<>>,
   pre |-> [key |-> NoKeyFile, env |-> NoEnvFile, meta |-> NoMetaFile]]

Invocation(op, ver, user, now, r) ==
  [op |-> op, ver |-> ver, user |-> user, now |-> now, err |-> r.err, log |-> r.log,
   pre |-> [key |-> keyFile, env |-> envFile, meta |-> metaFile]]

Brief(inv) ==
  [op |-> inv.op, err |-> inv.err, env |-> inv.pre.env, hadKey |-> inv.pre.key.exists]

\* two tool processes that may run at once, and one that has not been started
Procs == {1, 2}
IdleProc ==
  [op |-> "none", ver |-> "none", pc |-> "done", err |-> "none", keyData |-> NoKeyData,
   data |-> <<>>, token |-> 0, user |-> NoUser, begun |-> FALSE]
NoSched == [overlap |-> FALSE, lastDone |-> 0]

\* the envelope a run wrote with encryptFile, if it wrote one
Envelopes(r) ==
  IF \E i \in 1..Len(r.log) : r.log[i].a = "createCipheriv"
  THEN <<[key |-> r.log[CHOOSE i \in 1..Len(r.log) : r.log[i].a = "createCipheriv"].k,
          text |-> r.env.data]>>
  ELSE <<>>

Finish(op, ver, user, now, r) ==
  /\ r.rng <= MaxDraws
  /\ keyFile' = r.key
  /\ envFile' = r.env
  /\ metaFile' = r.meta
  /\ rng' = r.rng
  /\ last' = Invocation(op, ver, user, now, r)
  /\ prev' = Brief(last)
  /\ prev2' = prev
  /\ stored' = stored \cup (IF r.key.exists THEN {r.key.data} ELSE {})
  /\ written' = written \o Envelopes(r)
  /\ origin' = [origin EXCEPT !.ok = @ /\ r.err = "none"]
  /\ UNCHANGED <<procs, sched>>

Init ==
  /\ keyFile = NoKeyFile
  /\ metaFile = NoMetaFile
  /\ envFile \in {NoEnvFile} \cup {[exists |-> TRUE, mode |-> "default", data |-> P] : P \in Plaintexts}
  /\ rng = 0
  /\ last = NoInvocation
  /\ prev = Brief(NoInvocation)
  /\ prev2 = Brief(NoInvocation)
  /\ stored = {}
  /\ written = <<>>
  /\ origin = [env |-> envFile, ok |-> TRUE]
  /\ procs = [i \in Procs |-> IdleProc]
  /\ sched = NoSched

Encrypt ==
  \E ver \in Versions, user \in GitUsers \cup {NoUser}, now \in Times :
    Finish("encrypt", ver, user, now, mainEncrypt(Start, ver, user, now))

Decrypt ==
  \E ver \in Versions, garble \in BOOLEAN :
    Finish("decrypt", ver, NoUser, "", mainDecrypt(Start, ver, garble))

Rotate ==
  \E ver \in Versions, user \in GitUsers \cup {NoUser}, now \in Times :
    Finish("rotate", ver, user, now, mainRotate(Start, ver, user, now))

Next == Encrypt \/ Decrypt \/ Rotate

Spec == Init /\ [][Next]_vars

\* A project in which an earlier encrypt (of P, by script ver, for user)
\* succeeded: the run that encrypt made from a fresh project
FreshRun(P) ==
  [key |-> NoKeyFile, env |-> [exists |-> TRUE, mode |-> "default", data |-> P],
   meta |-> NoMetaFile, log |-> <<>>, err |-> "none", rng |-> 0, keyData |-> NoKeyData]

AfterEncrypt(P, ver, user, now) == mainEncrypt(FreshRun(P), ver, user, now)

\* The operator has removed the protected file after such an encrypt: the
\* only way decryptFile's existence check fails once a binding record has
\* been written.  last records the removal.
InitRemoved ==
  \E P \in Plaintexts, ver \in Versions, user \in GitUsers, now \in Times :
    LET r == AfterEncrypt(P, ver, user, now)
    IN /\ keyFile = r.key
       /\ metaFile = r.meta
       /\ envFile = NoEnvFile
       /\ rng = r.rng
       /\ last = [NoInvocation EXCEPT !.op = "rm",
                                      !.pre = [key |-> r.key, env |-> r.env, meta |-> r.meta]]
       /\ prev = Brief(NoInvocation)
       /\ prev2 = Brief(NoInvocation)
       /\ stored = {r.key.data}
       /\ written = Envelopes(r)
       /\ origin = [env |-> FreshRun(P).env, ok |-> TRUE]
       /\ procs = [i \in Procs |-> IdleProc]
       /\ sched = NoSched

SpecRemoved == (Init \/ InitRemoved) /\ [][Next]_vars

---------------------------------------------------------------------------
(* Two invocations at once.  Nothing in the scripts locks a file, so two   *)
(* tool processes started against the same project interleave at every    *)
(* call into the file system (and at the call of git).  Each process i has *)
(* its command, its script, the call it is about to make (pc) and its      *)
(* locals; a step is one such call together with the computation that      *)
(* follows it up to the next call.  sched.overlap says whether a process   *)
(* has taken a step while the other was between its first call and its     *)
(* end; sched.lastDone is the process that ended last.                     *)

\* the first call of each command
Entry(op) ==
  IF op = "encrypt" THEN "main.existsSync(key)"
  ELSE IF op = "decrypt" THEN "loadKey.existsSync(key)"
  ELSE "saveKey.mkdirSync"

Proc(op, ver) == [IdleProc EXCEPT !.op = op, !.ver = ver, !.pc = Entry(op)]

\* process i goes on as p
Set(i, p) ==
  /\ procs' = [procs EXCEPT ![i] = [p EXCEPT !.begun = TRUE]]
  /\ sched' = [overlap |-> sched.overlap
                            \/ \E j \in Procs \ {i} : procs[j].begun /\ procs[j].pc # "done",
               lastDone |-> IF p.pc = "done" THEN i ELSE sched.lastDone]

\* an exception: caught in main, the process ends
Fail(p, e) == [p EXCEPT !.err = e, !.pc = "done"]

Goto(p, pc) == [p EXCEPT !.pc = pc]

\* updateMetadata reading a field the key record does not have (undefined)
readToken_wrongField(key) == 0

\* the validation_token updateMetadata copies from the key record it read
readToken(key) == key.data.validation_token

\* a project as two concurrent invocations may find it: fresh, or after an
\* earlier successful encrypt
InitConc ==
  /\ \E P \in Plaintexts :
       \/ /\ keyFile = NoKeyFile
          /\ metaFile = NoMetaFile
          /\ envFile = FreshRun(P).env
          /\ rng = 0
          /\ stored = {}
       \/ \E ver \in Versions, user \in GitUsers, now \in Times :
            LET r == AfterEncrypt(P, ver, user, now)
            IN /\ keyFile = r.key
               /\ metaFile = r.meta
               /\ envFile = r.env
               /\ rng = r.rng
               /\ stored = {r.key.data}
  /\ last = NoInvocation
  /\ prev = Brief(NoInvocation)
  /\ prev2 = Brief(NoInvocation)
  /\ written = <<>>
  /\ origin = [env |-> NoEnvFile, ok |-> TRUE]
  /\ procs \in [Procs -> {Proc(op, ver) : op \in {"encrypt", "decrypt", "rotate"}, ver \in Versions}]
  /\ sched = NoSched

Observers == <<last, prev, prev2, written, origin>>

\* main, encrypt branch: fs.existsSync(keyPath); without a key file the new
\* key record is drawn
MainExistsKey(i) ==
  /\ procs[i].pc = "main.existsSync(key)"
  /\ IF keyFile.exists
     THEN /\ Set(i, Goto(procs[i], "loadKey.existsSync(key)"))
          /\ rng' = rng
     ELSE /\ Set(i, [Goto(procs[i], "saveKey.mkdirSync")
                       EXCEPT !.keyData = encryptKeyData([rng |-> rng])])
          /\ rng' = rng + 2
  /\ UNCHANGED <<keyFile, envFile, metaFile, stored, Observers>>

\* saveKey: fs.mkdirSync; in a rotate the new key record is drawn before it
SaveKeyMkdir(i) ==
  /\ procs[i].pc = "saveKey.mkdirSync"
  /\ keyFile' = [keyFile EXCEPT !.dir = TRUE]
  /\ IF procs[i].op = "rotate"
     THEN /\ Set(i, [Goto(procs[i], "saveKey.writeFileSync")
                       EXCEPT !.keyData = rotateKeyData([rng |-> rng])])
          /\ rng' = rng + 2
     ELSE /\ Set(i, Goto(procs[i], "saveKey.writeFileSync"))
          /\ rng' = rng
  /\ UNCHANGED <<envFile, metaFile, stored, Observers>>

\* saveKey: fs.writeFileSync(keyPath, ...)
SaveKeyWrite(i) ==
  /\ procs[i].pc = "saveKey.writeFileSync"
  /\ keyFile' = writeFileSync(keyFile, procs[i].keyData, WriteMode(procs[i].ver))
  /\ stored' = stored \cup {procs[i].keyData}
  /\ Set(i, Goto(procs[i], "encryptFile.existsSync"))
  /\ UNCHANGED <<envFile, metaFile, rng, Observers>>

\* loadKey: fs.existsSync(keyPath)
LoadKeyExists(i) ==
  /\ procs[i].pc = "loadKey.existsSync(key)"
  /\ Set(i, IF keyFile.exists THEN Goto(procs[i], "loadKey.readFileSync")
            ELSE Fail(procs[i], "KeyNotFound"))
  /\ UNCHANGED <<keyFile, envFile, metaFile, rng, stored, Observers>>

\* loadKey: fs.readFileSync(keyPath); called from the encrypt and the
\* decrypt branch
LoadKeyRead(i) ==
  /\ procs[i].pc = "loadKey.readFileSync"
  /\ Set(i, [Goto(procs[i], IF procs[i].op = "decrypt" THEN "readFileSync(meta)"
                            ELSE "encryptFile.existsSync")
               EXCEPT !.keyData = keyFile.data])
  /\ UNCHANGED <<keyFile, envFile, metaFile, rng, stored, Observers>>

\* encryptFile: fs.existsSync(filePath)
EncryptExists(i) ==
  /\ procs[i].pc = "encryptFile.existsSync"
  /\ Set(i, IF envFile.exists THEN Goto(procs[i], "encryptFile.readFileSync")
            ELSE Fail(procs[i], "FileNotFound"))
  /\ UNCHANGED <<keyFile, envFile, metaFile, rng, stored, Observers>>

\* encryptFile: fs.readFileSync(filePath)
EncryptRead(i) ==
  /\ procs[i].pc = "encryptFile.readFileSync"
  /\ Set(i, [Goto(procs[i], "encryptFile.writeFileSync") EXCEPT !.data = envFile.data])
  /\ UNCHANGED <<keyFile, envFile, metaFile, rng, stored, Observers>>

\* encryptFile: the iv is drawn, the text read is encrypted under the local
\* key record's secret, fs.writeFileSync(filePath, result)
EncryptWrite(i) ==
  /\ procs[i].pc = "encryptFile.writeFileSync"
  /\ LET p == procs[i]
         iv == rng + 1
         result == ToHex(IvBytes(iv)) \o <<Colon>> \o ToHex(cipher(p.data, p.keyData.key, iv))
     IN /\ envFile' = writeFileSync(envFile, result, WriteMode(p.ver))
        /\ rng' = rng + 1
        /\ Set(i, Goto(p, IF p.ver = "encrypt_env" THEN "updateMetadata.existsSync(key)"
                          ELSE "getGitUser"))
  /\ UNCHANGED <<keyFile, metaFile, stored, Observers>>

\* updateMetadata of encrypt_env.js: loadKey's fs.existsSync(keyPath)
MetaExistsKey(i) ==
  /\ procs[i].pc = "updateMetadata.existsSync(key)"
  /\ Set(i, IF keyFile.exists THEN Goto(procs[i], "updateMetadata.readFileSync(key)")
            ELSE Fail(procs[i], "KeyNotFound"))
  /\ UNCHANGED <<keyFile, envFile, metaFile, rng, stored, Observers>>

\* updateMetadata: the key file is read again; in encrypt_env.js git is
\* asked next, in the second script the binding record is written next
MetaReadKey(i) ==
  /\ procs[i].pc = "updateMetadata.readFileSync(key)"
  /\ Set(i, IF ~keyFile.exists THEN Fail(procs[i], "ENOENT")
            ELSE [Goto(procs[i], IF procs[i].ver = "encrypt_env" THEN "getGitUser"
                                 ELSE "updateMetadata.writeFileSync")
                    EXCEPT !.token = readToken(keyFile)])
  /\ UNCHANGED <<keyFile, envFile, metaFile, rng, stored, Observers>>

\* getGitUser: the two execSync calls of git config
GetGitUser(i) ==
  /\ procs[i].pc = "getGitUser"
  /\ \E user \in GitUsers \cup {NoUser} :
       Set(i, IF user = NoUser THEN Fail(procs[i], "IdentityUnavailable")
              ELSE [Goto(procs[i], IF procs[i].ver = "encrypt_env"
                                   THEN "updateMetadata.writeFileSync"
                                   ELSE "updateMetadata.readFileSync(key)")
                      EXCEPT !.user = user])
  /\ UNCHANGED <<keyFile, envFile, metaFile, rng, stored, Observers>>

\* updateMetadata: fs.writeFileSync(".env.encrypt", ...)
MetaWrite(i) ==
  /\ procs[i].pc = "updateMetadata.writeFileSync"
  /\ \E now \in Times :
       LET p == procs[i]
       IN metaFile' = writeFileSync(metaFile,
                        Metadata(p.ver, p.user, p.op = "rotate", p.token, now),
                        WriteMode(p.ver))
  /\ Set(i, Goto(procs[i], "done"))
  /\ UNCHANGED <<keyFile, envFile, rng, stored, Observers>>

\* main, decrypt branch: fs.readFileSync(metadataFilePath), then validateKey
DecryptReadMeta(i) ==
  /\ procs[i].pc = "readFileSync(meta)"
  /\ Set(i, IF ~metaFile.exists THEN Fail(procs[i], "ENOENT")
            ELSE IF procs[i].keyData.validation_token # metaFile.data.validation_token
            THEN Fail(procs[i], "BindingMismatch")
            ELSE Goto(procs[i], "decryptFile.existsSync"))
  /\ UNCHANGED <<keyFile, envFile, metaFile, rng, stored, Observers>>

\* decryptFile: fs.existsSync(filePath)
DecryptExists(i) ==
  /\ procs[i].pc = "decryptFile.existsSync"
  /\ Set(i, IF envFile.exists THEN Goto(procs[i], "decryptFile.readFileSync")
            ELSE Fail(procs[i], "FileNotFound"))
  /\ UNCHANGED <<keyFile, envFile, metaFile, rng, stored, Observers>>

\* decryptFile: fs.readFileSync(filePath), split, createDecipheriv, update,
\* final: the text to write is computed or the run fails
DecryptRead(i) ==
  /\ procs[i].pc = "decryptFile.readFileSync"
  /\ \E garble \in BOOLEAN :
       LET p == procs[i]
           parts == split(envFile.data)
           undefinedText == p.ver = "encrypt_env" /\ Len(parts) < 2
           encryptedText == IF undefinedText THEN <<>>
                            ELSE IF p.ver = "encrypt_env" THEN parts[2]
                            ELSE join(Tail(parts))
           iv == FromHex(parts[1])
           out == decipher(FromHex(encryptedText), p.keyData.key, iv.n, garble)
       IN Set(i, IF iv.t # "iv" \/ undefinedText \/ ~out.ok
                 THEN Fail(p, "DecryptionFailed")
                 ELSE [Goto(p, "decryptFile.writeFileSync") EXCEPT !.data = out.text])
  /\ UNCHANGED <<keyFile, envFile, metaFile, rng, stored, Observers>>

\* decryptFile: fs.writeFileSync(filePath, decrypted)
DecryptWrite(i) ==
  /\ procs[i].pc = "decryptFile.writeFileSync"
  /\ envFile' = writeFileSync(envFile, procs[i].data, WriteMode(procs[i].ver))
  /\ Set(i, Goto(procs[i], "done"))
  /\ UNCHANGED <<keyFile, metaFile, rng, stored, Observers>>

NextConc ==
  \E i \in Procs :
    \/ MainExistsKey(i)
    \/ SaveKeyMkdir(i)
    \/ SaveKeyWrite(i)
    \/ LoadKeyExists(i)
    \/ LoadKeyRead(i)
    \/ EncryptExists(i)
    \/ EncryptRead(i)
    \/ EncryptWrite(i)
    \/ MetaExistsKey(i)
    \/ MetaReadKey(i)
    \/ GetGitUser(i)
    \/ MetaWrite(i)
    \/ DecryptReadMeta(i)
    \/ DecryptExists(i)
    \/ DecryptRead(i)
    \/ DecryptWrite(i)

SpecConc == InitConc /\ [][NextConc]_vars

---------------------------------------------------------------------------
(* Vocabulary of the properties *)

\* the log entries that are cipher operations or file writes
CipherOrWrite ==
  {"createCipheriv", "createDecipheriv", "writeFileSync(env)", "writeFileSync(key)",
   "writeFileSync(meta)"}

\* the positions of the log entries named a
At(log, a) == {i \in 1..Len(log) : log[i].a = a}

\* the three files are as they were before the last invocation
FilesUntouched ==
  /\ keyFile = last.pre.key
  /\ envFile = last.pre.env
  /\ metaFile = last.pre.meta

\* before the last invocation a key record and a binding record were on
\* disk and their tokens differed
TokensDiffered ==
  /\ last.pre.key.exists
  /\ last.pre.meta.exists
  /\ last.pre.key.data.validation_token # last.pre.meta.data.validation_token

---------------------------------------------------------------------------
(* C1: a decrypt run started with a stored key whose validation_token      *)
(* differs from the binding record's token ends with the binding-mismatch  *)
(* error, having attempted no cipher operation and no file write, and      *)
(* leaves the protected file, the key file and the binding record as they  *)
(* were.                                                                   *)
C1_BindingGate ==
  (last.op = "decrypt" /\ TokensDiffered) =>
    /\ last.err = "BindingMismatch"
    /\ \A i \in 1..Len(last.log) : last.log[i].a \notin CipherOrWrite
    /\ FilesUntouched

\* a decrypt was refused at the gate while an envelope was on disk
C1_Witness ==
  /\ last.op = "decrypt"
  /\ TokensDiffered
  /\ last.err = "BindingMismatch"
  /\ last.pre.env.exists
  /\ Len(split(last.pre.env.data)) = 2

\* text is one envelope, "hex(iv):hex(ciphertext)", of P under secret
IsEnvelopeOf(text, P, secret) ==
  /\ Len(split(text)) = 2
  /\ FromHex(split(text)[1]).t = "iv"
  /\ FromHex(split(text)[2]) = CtBytes(secret, FromHex(split(text)[1]).n, P)

\* e (prev or prev2) was a successful encrypt of a plaintext protected file
EncryptedPlaintext(e) ==
  /\ e.op = "encrypt"
  /\ e.err = "none"
  /\ e.env.exists
  /\ e.env.data \in Plaintexts

---------------------------------------------------------------------------
(* C2: from a plaintext protected file P, after encrypt and rotate (both   *)
(* succeeding) the protected file is a single envelope of P under the new  *)
(* stored secret and the binding record's status is "rotated"; after the   *)
(* decrypt that follows, the protected file is exactly P.                  *)
C2_EncryptRotateDecrypt ==
  /\ (EncryptedPlaintext(prev) /\ last.op = "rotate" /\ last.err = "none") =>
       /\ IsEnvelopeOf(envFile.data, prev.env.data, keyFile.data.key)
       /\ metaFile.data.key_status = "rotated"
  /\ (EncryptedPlaintext(prev2) /\ prev.op = "rotate" /\ prev.err = "none"
        /\ last.op = "decrypt" /\ last.err = "none") =>
       envFile.data = prev2.env.data

---------------------------------------------------------------------------
(* C3: from a plaintext protected file P, a successful encrypt followed at *)
(* once by decrypt: the decrypt succeeds and the protected file is exactly *)
(* P again, whether the encrypt created the key record or reused it.       *)
C3_RoundTrip ==
  (EncryptedPlaintext(prev) /\ last.op = "decrypt") =>
    /\ last.err = "none"
    /\ envFile.exists
    /\ envFile.data = prev.env.data

\* the round trip was made with a key record the encrypt found on disk
C3_Witness ==
  /\ EncryptedPlaintext(prev)
  /\ prev.hadKey
  /\ last.op = "decrypt"
  /\ last.err = "none"
  /\ envFile.data = prev.env.data

---------------------------------------------------------------------------
(* C4: an encrypt or rotate run for which git reports no identity fails    *)
(* and leaves the key file, the protected file and the binding record as   *)
(* they were.                                                              *)
C4_NoIdentityNoChange ==
  (last.op \in {"encrypt", "rotate"} /\ last.user = NoUser) =>
    /\ last.err # "none"
    /\ FilesUntouched

---------------------------------------------------------------------------
(* C5: among all key records the key file has ever held, two have the same *)
(* validation_token exactly when they have the same secret.                *)
C5_PairReplaced ==
  \A a \in stored, b \in stored :
    (a.validation_token = b.validation_token) <=> (a.key = b.key)

\* a rotate has replaced a key record that was on disk
C5_Witness ==
  /\ last.op = "rotate"
  /\ last.pre.key.exists
  /\ Cardinality(stored) >= 2
  /\ keyFile.data # last.pre.key.data

---------------------------------------------------------------------------
(* C6: after a successful encrypt or rotate the binding record exists, its *)
(* validation_token is the stored key record's, its status is "rotated"    *)
(* after rotate and "stable" after encrypt, and every field it has was     *)
(* written by this run: the operator is this run's, and it has a timestamp *)
(* only if this run's script writes one.                                   *)
C6_BindingRecordWritten ==
  (last.op \in {"encrypt", "rotate"} /\ last.err = "none") =>
    /\ metaFile.exists
    /\ keyFile.exists
    /\ metaFile.data.validation_token = keyFile.data.validation_token
    /\ metaFile.data.key_status = (IF last.op = "rotate" THEN "rotated" ELSE "stable")
    /\ metaFile.data.last_encrypted_by = last.user
    /\ metaFile.data.key_path = KeyPath
    /\ metaFile.data.fields =
         {"last_encrypted_by", "key_path", "key_status", "validation_token"}
           \cup (IF last.ver = "encrypt_env" THEN {"timestamp"} ELSE {})
    /\ metaFile.data.timestamp = (IF last.ver = "encrypt_env" THEN last.now ELSE "")

\* a binding record with a timestamp, another operator, another status and
\* another token was overwritten by the script that writes no timestamp
C6_Witness ==
  /\ last.op = "encrypt"
  /\ last.err = "none"
  /\ last.ver = "part_000"
  /\ last.pre.meta.exists
  /\ "timestamp" \in last.pre.meta.data.fields
  /\ last.pre.meta.data.last_encrypted_by # last.user
  /\ last.pre.meta.data.key_status = "rotated"

---------------------------------------------------------------------------
(* C7: after a rotate run that ends in an error, the key record that was   *)
(* stored before the run is still the stored key record, and a binding     *)
(* record on disk is bound to the key record on disk.                      *)
C7_FailedRotateKeepsKey ==
  (last.op = "rotate" /\ last.err # "none" /\ last.pre.key.exists) =>
    /\ keyFile.exists
    /\ keyFile.data = last.pre.key.data
    /\ metaFile.exists =>
         metaFile.data.validation_token = keyFile.data.validation_token

---------------------------------------------------------------------------
(* C8: in every rotate run the key file is written before the protected    *)
(* file is looked at, read or written, the binding record is written only  *)
(* after the protected file has been written, and the protected file is    *)
(* written only under the secret the run has already stored in the key     *)
(* file.                                                                   *)
C8_RotateOrder ==
  last.op = "rotate" =>
    LET log == last.log
        keyW == At(log, "writeFileSync(key)")
        envW == At(log, "writeFileSync(env)")
        envAny == At(log, "existsSync(env)") \cup At(log, "readFileSync(env)")
                    \cup At(log, "createCipheriv") \cup envW
        metaW == At(log, "writeFileSync(meta)")
    IN /\ keyW # {}
       /\ \A i \in keyW, j \in envAny : i < j
       /\ \A m \in metaW : envW # {} /\ \A j \in envW : j < m
       /\ \A j \in envW :
            /\ log[j].k = keyFile.data.key
            /\ \E i \in keyW : i < j /\ log[i].k = log[j].k

\* a rotate ran to its end
C8_Witness ==
  /\ last.op = "rotate"
  /\ last.err = "none"
  /\ Len(last.log) >= 5

---------------------------------------------------------------------------
(* C9: a rotate run that replaces a key record stores a validation_token   *)
(* and a secret both different from the replaced ones, and the replaced    *)
(* key record fails validateKey against the binding record the run wrote.  *)
C9_RotationInvalidates ==
  (last.op = "rotate" /\ last.pre.key.exists) =>
    /\ keyFile.data.validation_token # last.pre.key.data.validation_token
    /\ keyFile.data.key # last.pre.key.data.key
    /\ last.err = "none" =>
         validateKey(Start, last.pre.key.data, metaFile.data).err = "BindingMismatch"

\* a rotate replaced a key record and wrote the binding record
C9_Witness ==
  /\ last.op = "rotate"
  /\ last.pre.key.exists
  /\ last.err = "none"
  /\ metaFile.data.key_status = "rotated"

---------------------------------------------------------------------------
(* C10: encrypt writes the key file only when there is none; with a key    *)
(* record on disk it leaves the key file as it was, whether it succeeds or *)
(* fails.  decrypt never writes the key file, and with no key on disk it   *)
(* fails with key-not-found.                                               *)
C10_KeyCreatedOnlyWhenAbsent ==
  /\ (last.op = "encrypt" /\ last.pre.key.exists) =>
       /\ keyFile = last.pre.key
       /\ At(last.log, "writeFileSync(key)") = {}
  /\ (last.op = "encrypt" /\ ~last.pre.key.exists) =>
       /\ keyFile.exists
       /\ At(last.log, "writeFileSync(key)") # {}
  /\ last.op = "decrypt" =>
       /\ keyFile = last.pre.key
       /\ At(last.log, "writeFileSync(key)") = {}
       /\ ~last.pre.key.exists => (last.err = "KeyNotFound" /\ ~keyFile.exists)

\* an encrypt that found a key record on disk failed
C10_Witness ==
  /\ last.op = "encrypt"
  /\ last.pre.key.exists
  /\ last.err # "none"
  /\ keyFile = last.pre.key

---------------------------------------------------------------------------
(* C11: of the envelopes encryptFile has written, in encrypt and in rotate *)
(* runs, no two made under the same secret carry the same iv, and no two   *)
(* made under the same secret are the same text, even when they encrypt    *)
(* the same plaintext.                                                     *)

\* the iv an envelope carries, and the text it encrypts
IvOf(text) == FromHex(split(text)[1]).n
InnerOf(text) == FromHex(split(text)[2]).data

C11_FreshIv ==
  \A i \in 1..Len(written), j \in 1..Len(written) :
    (i < j /\ written[i].key = written[j].key) =>
      /\ IvOf(written[i].text) # IvOf(written[j].text)
      /\ written[i].text # written[j].text

\* the same plaintext was encrypted twice under the same secret
C11_Witness ==
  \E i \in 1..Len(written), j \in 1..Len(written) :
    /\ i < j
    /\ written[i].key = written[j].key
    /\ InnerOf(written[i].text) = InnerOf(written[j].text)
    /\ InnerOf(written[i].text) \in Plaintexts

---------------------------------------------------------------------------
(* C12: whenever the key file exists (only the tool writes it: encrypt     *)
(* creates it, rotate creates or overwrites it), its mode is owner         *)
(* read/write only and its directory exists, whichever script wrote it.    *)
C12_KeyFileOwnerOnly ==
  keyFile.exists =>
    /\ keyFile.mode = "0600"
    /\ keyFile.dir

---------------------------------------------------------------------------
(* C13: starting from a plaintext protected file P, while every invocation *)
(* so far has succeeded the protected file is either exactly P or exactly  *)
(* one envelope of P under the stored secret, and after a decrypt it is P. *)
C13_StateMachine ==
  (origin.env.exists /\ origin.ok) =>
    /\ \/ envFile.data = origin.env.data
       \/ keyFile.exists /\ IsEnvelopeOf(envFile.data, origin.env.data, keyFile.data.key)
    /\ last.op = "decrypt" => envFile.data = origin.env.data

---------------------------------------------------------------------------
(* C14: a decrypt run that ends in an error, whatever the error, leaves    *)
(* the protected file as it was: it has not written it, and it has made at *)
(* most one attempt to decipher it.                                        *)
C14_FailedDecryptKeepsFile ==
  (last.op = "decrypt" /\ last.err # "none") =>
    /\ envFile = last.pre.env
    /\ At(last.log, "writeFileSync(env)") = {}
    /\ Cardinality(At(last.log, "createDecipheriv")) <= 1

\* the cipher rejected a well-formed envelope that had passed the gate
C14_Witness ==
  /\ last.op = "decrypt"
  /\ last.err = "DecryptionFailed"
  /\ Len(split(last.pre.env.data)) = 2
  /\ FromHex(split(last.pre.env.data)[1]).t = "iv"
  /\ FromHex(split(last.pre.env.data)[2]).t = "ct"
  /\ envFile = last.pre.env

---------------------------------------------------------------------------
(* C15: a decrypt run, successful or not, leaves the key file and the      *)
(* binding record as they were; after a successful one the binding         *)
(* record's token is still the stored key's; and a decrypt run that        *)
(* follows a successful decrypt and finds the file plaintext passes        *)
(* validateKey, fails at the cipher and leaves the file as it was.         *)
C15_DecryptFrame ==
  /\ last.op = "decrypt" =>
       /\ keyFile = last.pre.key
       /\ metaFile = last.pre.meta
       /\ At(last.log, "writeFileSync(key)") \cup At(last.log, "writeFileSync(meta)") = {}
  /\ (last.op = "decrypt" /\ last.err = "none") =>
       /\ metaFile.exists
       /\ keyFile.exists
       /\ metaFile.data.validation_token = keyFile.data.validation_token
  /\ (prev.op = "decrypt" /\ prev.err = "none" /\ last.op = "decrypt"
        /\ last.pre.env.data \in Plaintexts) =>
       /\ At(last.log, "validateKey") # {}
       /\ At(last.log, "createDecipheriv") # {}
       /\ last.err = "DecryptionFailed"
       /\ envFile = last.pre.env

\* a second decrypt ran on the plaintext the first one had restored
C15_Witness ==
  /\ prev.op = "decrypt"
  /\ prev.err = "none"
  /\ last.op = "decrypt"
  /\ last.pre.env.data \in Plaintexts
  /\ last.err = "DecryptionFailed"

---------------------------------------------------------------------------
(* C16: two invocations interleaved at the single calls into the file     *)
(* system.  As stated: once both have completed successfully, the binding  *)
(* record's validation_token equals the stored key record's token, and the *)
(* outermost encryption of the protected file was produced with the stored *)
(* key record's secret.                                                    *)

BothSucceeded ==
  \A i \in Procs : procs[i].op # "none" /\ procs[i].pc = "done" /\ procs[i].err = "none"

\* the protected file is an iv:ciphertext envelope
IsEnvelope(text) ==
  /\ Len(split(text)) = 2
  /\ FromHex(split(text)[1]).t = "iv"
  /\ FromHex(split(text)[2]).t = "ct"

\* the secret its outermost layer was produced with
OuterSecret(text) == FromHex(split(text)[2]).key

TokenConsistent ==
  metaFile.exists /\ keyFile.exists
    /\ metaFile.data.validation_token = keyFile.data.validation_token

OuterConsistent ==
  (envFile.exists /\ IsEnvelope(envFile.data)) =>
    (keyFile.exists /\ OuterSecret(envFile.data) = keyFile.data.key)

C16_ConcurrentConsistent ==
  BothSucceeded => (TokenConsistent /\ OuterConsistent)

(* C16 as it holds: once both have completed successfully, the binding    *)
(* record's validation_token is the token of a key record that was stored  *)
(* at some time, and an envelope in the protected file was produced with   *)
(* the secret of a key record that was stored at some time, neither        *)
(* necessarily the one stored at the end (the last writer of each file     *)
(* wins, separately).  When the two invocations did not overlap the token  *)
(* is the stored key record's, and so is the envelope's secret unless the  *)
(* invocation that ended last was a decrypt.                               *)
C16_LastWriterWins ==
  BothSucceeded =>
    /\ metaFile.exists /\ keyFile.exists
    /\ keyFile.data \in stored
    /\ \E k \in stored : metaFile.data.validation_token = k.validation_token
    /\ (envFile.exists /\ IsEnvelope(envFile.data)) =>
         \E k \in stored : OuterSecret(envFile.data) = k.key
    /\ ~sched.overlap =>
         /\ TokenConsistent
         /\ procs[sched.lastDone].op # "decrypt" => OuterConsistent

\* two first-time encrypts overlapped and both succeeded; the protected file's
\* outer layer is under the secret of the key record that was overwritten
C16_Witness ==
  /\ BothSucceeded
  /\ sched.overlap
  /\ \A i \in Procs : procs[i].op = "encrypt"
  /\ procs[1].keyData # procs[2].keyData
  /\ IsEnvelope(envFile.data)
  /\ OuterSecret(envFile.data) # keyFile.data.key
  /\ \E k \in stored : OuterSecret(envFile.data) = k.key

====
